---- MODULE Spec2Model ----
(***************************************************************************)
(* Proxy rotation and replenishment of the movie scrapers.                 *)
(*                                                                         *)
(*   scrapers/middlewares.py  CustomRotatingProxiesMiddleware (request     *)
(*                            time selection), CustomProxies (the pool,    *)
(*                            the acquisition chain and its two locks)     *)
(*   modules/async_looper.py  RepeatedTimer (the periodic refresher)       *)
(*                                                                         *)
(* CustomProxies extends rotating_proxies.expire.Proxies and the           *)
(* middleware extends rotating_proxies.middlewares.RotatingProxyMiddleware.*)
(* The operations the repository inherits unchanged (get_random,           *)
(* mark_dead, mark_good, get_proxy, _handle_result, get_proxy_slot,        *)
(* exp_backoff) are modelled as that library defines them; every such      *)
(* definition says so.                                                     *)
(*                                                                         *)
(* Two specifications share the variables:                                 *)
(*   Spec       the reactor thread (process_request, _handle_result) and   *)
(*              one timer thread running update_proxies, step by step at   *)
(*              the granularity of the lock operations;                    *)
(*   SpecTimer  RepeatedTimer: its timer threads running _run line by line *)
(*              against start() and stop() called from outside.            *)
(***************************************************************************)
EXTENDS Integers, Sequences, FiniteSets, TLC

VARIABLES
    pool,                   \* self.proxies: the CustomProxies instance
    proxy2ua,               \* CustomRotatingProxiesMiddleware.proxy2ua
    is_initial_collection,  \* CustomProxies.is_initial_collection
    gather_lock,            \* CustomProxies.gather_lock (threading.RLock)
    check_lock,             \* CustomProxies.check_lock  (threading.RLock)
    settings,               \* the crawler settings the middleware reads
    req,                    \* request.meta / request.headers of each request
    th,                     \* each thread's position and locals
    now,                    \* time.time()
    rt,                     \* the RepeatedTimer instance
    tm,                     \* the threading.Timer objects it created
    caller                  \* the outcome of the last outside call on rt

poolVars == <<pool, proxy2ua, is_initial_collection, gather_lock, check_lock,
              settings, req, th, now>>
timerVars == <<rt, tm, caller>>
vars == <<pool, proxy2ua, is_initial_collection, gather_lock, check_lock,
          settings, req, th, now, rt, tm, caller>>

(***************************************************************************)
(* Bounds of the model.                                                    *)
(***************************************************************************)
\* Frames of get_proxies_from_external the interpreter allows before it
\* raises RecursionError (sys.getrecursionlimit(), 1000 by default).
MaxDepth == 2
\* mark_dead is not applied to a proxy that failed this many times in a row.
MaxFail == 1
\* threading.Timer objects one RepeatedTimer creates.
MaxTimers == 3
\* Failures recorded for one proxy without a success in between.
MaxAttempts == 9
\* Steps of the clock.
MaxTicks == 2

(***************************************************************************)
(* Proxies, requests, threads.                                             *)
(***************************************************************************)
\* A proxy URL, by its parts.  scheme "" is the bare host:port form.
Px(s, h) == [scheme |-> s, host |-> h, port |-> 80]
NoProxy == Px("none", "none")            \* Python's None where a proxy is expected
A == Px("http", "h1")
B == Px("http", "h2")
\* modules/proxy_scraper.py writes f"{proxy.host}:{proxy.port}": no scheme.
Abare == Px("", "h1")
\* A proxy a spider set by hand on its request.
Manual == Px("http", "manual")

\* ROTATING_PROXY_LIST_PATH holds these lines when it is a file.
FileLines == {A, B}
\* What one run of the external script leaves in PROXY_FILE_PATH.
ExtChoices == {{}, {Abare}}
\* What one broker.find() run puts on the queue.
ProgChoices == {{}, {A}}
\* s.getlist("ROTATING_PROXY_LIST", []): scrapers/settings.py sets none.
SettingsList == {}
\* Seed lists CustomProxies.get_proxies() read from the file at start.
Seeds == {{A}, {A, B}}

UserAgents == {"ua1", "ua2"}
NoUA == "none"

Requests == {"r1", "r2"}
Threads == {"main", "timer"}
NoThread == "none"

\* rotating_proxies.utils.extract_proxy_hostport (library): the netloc.
extract_proxy_hostport(proxy) == <<proxy.host, proxy.port>>

\* RotatingProxyMiddleware.get_proxy_slot (library): urlsplit(proxy).hostname,
\* which is None for a bare host:port.
get_proxy_slot(proxy) == IF proxy.scheme = "" THEN "none" ELSE proxy.host

(***************************************************************************)
(* The pool: rotating_proxies.expire.Proxies with CustomProxies.add.       *)
(***************************************************************************)
\* rotating_proxies.expire.ProxyState(): next_check -1 stands for None.
ProxyState == [failed_attempts |-> 0, next_check |-> -1, backoff_time |-> -1]

RECURSIVE SeqsOf(_)
\* Every order in which a Python list(set(...)) can list the set S.
SeqsOf(S) ==
    IF S = {} THEN {<<>>}
    ELSE UNION {{<<x>> \o s : s \in SeqsOf(S \ {x})} : x \in S}

\* CustomProxies.add without its membership test.
add_unguarded(P, proxy) ==
    [P EXCEPT
        !.proxies = [q \in DOMAIN P.proxies \cup {proxy} |->
                        IF q = proxy THEN ProxyState ELSE P.proxies[q]],
        !.proxies_by_hostport =
            [hp \in DOMAIN P.proxies_by_hostport
                    \cup {extract_proxy_hostport(proxy)} |->
                IF hp = extract_proxy_hostport(proxy) THEN proxy
                ELSE P.proxies_by_hostport[hp]],
        !.unchecked = P.unchecked \cup {proxy}]

\* CustomProxies.add without line 451, self.unchecked.add(proxy).
add_not_unchecked(P, proxy) ==
    IF proxy \in DOMAIN P.proxies THEN P
    ELSE [P EXCEPT
            !.proxies = [q \in DOMAIN P.proxies \cup {proxy} |->
                            IF q = proxy THEN ProxyState ELSE P.proxies[q]],
            !.proxies_by_hostport =
                [hp \in DOMAIN P.proxies_by_hostport
                        \cup {extract_proxy_hostport(proxy)} |->
                    IF hp = extract_proxy_hostport(proxy) THEN proxy
                    ELSE P.proxies_by_hostport[hp]]]

\* CustomProxies.add
add(P, proxy) ==
    IF proxy \in DOMAIN P.proxies THEN P
    ELSE [P EXCEPT
            !.proxies = [q \in DOMAIN P.proxies \cup {proxy} |->
                            IF q = proxy THEN ProxyState ELSE P.proxies[q]],
            !.proxies_by_hostport =
                [hp \in DOMAIN P.proxies_by_hostport
                        \cup {extract_proxy_hostport(proxy)} |->
                    IF hp = extract_proxy_hostport(proxy) THEN proxy
                    ELSE P.proxies_by_hostport[hp]],
            !.unchecked = P.unchecked \cup {proxy}]

RECURSIVE AddAll(_, _)
\* The loop of update_proxies: for proxy in new_proxies: self.add(proxy)
AddAll(P, new_proxies) ==
    IF new_proxies = <<>> THEN P
    ELSE AddAll(add(P, Head(new_proxies)), Tail(new_proxies))

\* Proxies.__init__ (library) on the cleaned seed list: every proxy unchecked.
NewPool(proxy_list) ==
    AddAll([proxies |-> <<>>, proxies_by_hostport |-> <<>>,
            unchecked |-> {}, good |-> {}, dead |-> {}], proxy_list)

\* Proxies.get_random (library) picks from list(self.unchecked | self.good);
\* None when that list is empty.
Available(P) == P.unchecked \cup P.good
get_random(P) == IF Available(P) = {} THEN {NoProxy} ELSE Available(P)

\* Proxies.get_proxy (library): the proxy registered for the address's hostport.
get_proxy(P, proxy_address) ==
    IF proxy_address = NoProxy THEN NoProxy
    ELSE IF extract_proxy_hostport(proxy_address) \in DOMAIN P.proxies_by_hostport
         THEN P.proxies_by_hostport[extract_proxy_hostport(proxy_address)]
         ELSE NoProxy

\* ROTATING_PROXY_BACKOFF_BASE and ROTATING_PROXY_BACKOFF_CAP, in seconds.
BackoffBase == 30
BackoffCap == 7200

RECURSIVE Pow2(_)
Pow2(n) == IF n = 0 THEN 1 ELSE 2 * Pow2(n - 1)

\* exp_backoff without its cap.
exp_backoff_uncapped(attempt) == BackoffBase * Pow2(attempt)

\* exp_backoff applied to the count of failures after its increment.
exp_backoff_next(attempt) ==
    IF BackoffBase * Pow2(attempt + 1) <= BackoffCap
    THEN BackoffBase * Pow2(attempt + 1) ELSE BackoffCap

\* rotating_proxies.expire.exp_backoff (library): min(cap, base * 2 ** attempt)
exp_backoff(attempt) ==
    IF BackoffBase * Pow2(attempt) <= BackoffCap
    THEN BackoffBase * Pow2(attempt) ELSE BackoffCap

\* Proxies.mark_dead (library).  jitter is the value exp_backoff_full_jitter
\* drew from uniform(0, exp_backoff(failed_attempts)).
mark_dead(P, proxy, time, jitter) ==
    IF proxy \notin DOMAIN P.proxies THEN P
    ELSE [P EXCEPT
            !.unchecked = P.unchecked \ {proxy},
            !.good = P.good \ {proxy},
            !.dead = P.dead \cup {proxy},
            !.proxies[proxy] =
                [failed_attempts |-> P.proxies[proxy].failed_attempts + 1,
                 next_check |-> time + jitter,
                 backoff_time |-> jitter]]

\* Proxies.mark_good (library): next_check is left as it was.
mark_good(P, proxy) ==
    IF proxy \notin DOMAIN P.proxies THEN P
    ELSE [P EXCEPT
            !.unchecked = P.unchecked \ {proxy},
            !.dead = P.dead \ {proxy},
            !.good = P.good \cup {proxy},
            !.proxies[proxy].failed_attempts = 0]

(***************************************************************************)
(* Locks: threading.RLock, owned by one thread, counted per acquisition.   *)
(***************************************************************************)
FreeLock == [owner |-> NoThread, count |-> 0]
\* RLock.acquire() returns for the owner and when nobody owns the lock.
CanAcquire(lock, t) == lock.owner = NoThread \/ lock.owner = t
Acquire(lock, t) == [owner |-> t, count |-> lock.count + 1]
\* A `with` block that keeps the lock when it is left.
ReleaseAll_never(lock, t) == lock
\* Leaving every `with` block the thread is in.
ReleaseAll(lock, t) == IF lock.owner = t THEN FreeLock ELSE lock

(***************************************************************************)
(* Threads.                                                                *)
(***************************************************************************)
Idle ==
    [op |-> "none", pc |-> "idle", stage |-> 0, r |-> "none",
     read_from_file |-> FALSE, read_from_broker |-> FALSE,
     proxy_list |-> {}, depth |-> 0, log |-> <<>>, outcome |-> "none",
     waited |-> FALSE, stale |-> FALSE, file_got |-> {}, limit |-> 0,
     proxy |-> NoProxy]

\* A thread back from its operation: what the caller can observe of it.
Done(thr, log, outcome) ==
    [Idle EXCEPT !.op = thr.op, !.r = thr.r, !.stage = thr.stage,
                 !.file_got = thr.file_got, !.waited = thr.waited,
                 !.stale = thr.stale,
                 !.log = log, !.outcome = outcome]

\* request.meta and the User-Agent header of a request nobody touched.
FreshRequest ==
    [proxy |-> NoProxy, download_slot |-> "none", rotating |-> FALSE, ua |-> NoUA]
ManualRequest == [FreshRequest EXCEPT !.proxy = Manual]

(***************************************************************************)
(* Initial states: the middleware as from_crawler leaves it.               *)
(***************************************************************************)
\* scrapers/settings.py: USE_RANDOM_UA = True, RANDOM_UA_PER_PROXY = False;
\* ROTATING_PROXY_CLOSE_SPIDER varies.
SettingsChoices ==
    [stop_if_no_proxies : BOOLEAN, use_random_ua : {TRUE}, per_proxy : {FALSE}]

\* RepeatedTimer.__init__ with now=False, lines 39-52: the fields, then
\* start().  timer is the index in tm of self._timer, 0 for None; next_call
\* counts intervals from the construction.
TimerInit ==
    /\ rt = [timer |-> 1, next_call |-> 1, is_function_running |-> FALSE,
             created |-> 1]
    /\ tm = [i \in 1..MaxTimers |-> IF i = 1 THEN "armed" ELSE "none"]
    /\ caller = [op |-> "none", raised |-> FALSE, pc |-> "idle"]

Init ==
    \* from_crawler ran get_proxies() and the file source gave the seed, so
    \* no collection has run yet.
    /\ \E seed \in Seeds : \E order \in SeqsOf(seed) : pool = NewPool(order)
    /\ is_initial_collection = TRUE
    /\ proxy2ua = <<>>
    /\ gather_lock = FreeLock
    /\ check_lock = FreeLock
    /\ settings \in SettingsChoices
    /\ req = [r \in Requests |-> IF r = "r2" THEN ManualRequest ELSE FreshRequest]
    /\ th = [t \in Threads |-> Idle]
    /\ now = 0
    /\ TimerInit

(***************************************************************************)
(* process_request and the acquisition chain.                              *)
(***************************************************************************)
\* Line 92 without its test of the _rotating_proxy mark.
IsPassThrough_any_proxy(meta) == meta.proxy # NoProxy

\* process_request, line 92: an explicit proxy the controller did not assign.
IsPassThrough(meta) == meta.proxy # NoProxy /\ ~meta.rotating

\* Line 97 with ROTATING_PROXY_CLOSE_SPIDER ignored.
StopsWithoutProxies_never == FALSE

\* process_request, line 97.
StopsWithoutProxies == settings.stop_if_no_proxies

\* process_request, line 101: update_proxies(read_from_broker=False)
FirstRunFlags == [read_from_file |-> TRUE, read_from_broker |-> FALSE]
\* Line 104 as update_proxies(): the file source read again.
SecondRunFlags_full == [read_from_file |-> TRUE, read_from_broker |-> TRUE]

\* process_request, line 104: update_proxies(read_from_file=False)
SecondRunFlags == [read_from_file |-> FALSE, read_from_broker |-> TRUE]
\* CustomProxies.__init__, line 171: the timer's update_proxies(read_from_file=False)
TimerRunFlags == [read_from_file |-> FALSE, read_from_broker |-> TRUE]

\* setup_ua: the proxy2ua cache after the call; u is what get_ua() drew.
setup_ua_cache(p2u, proxy, u) ==
    IF settings.use_random_ua /\ settings.per_proxy /\ proxy \notin DOMAIN p2u
    THEN [q \in DOMAIN p2u \cup {proxy} |-> IF q = proxy THEN u ELSE p2u[q]]
    ELSE p2u

\* setup_ua: the User-Agent header after headers.setdefault(...).
setup_ua_header(old, p2u, proxy, u) ==
    IF ~settings.use_random_ua THEN old
    ELSE IF old # NoUA THEN old
    ELSE IF settings.per_proxy THEN setup_ua_cache(p2u, proxy, u)[proxy]
    ELSE u

\* process_request, lines 113-118, with proxy2ua as lines 110-111 left it.
Assign(t, thr, proxy, p2u) ==
    \E u \in UserAgents :
        /\ req' = [req EXCEPT ![thr.r] =
                    [proxy |-> proxy,
                     download_slot |-> get_proxy_slot(proxy),
                     rotating |-> TRUE,
                     ua |-> setup_ua_header(req[thr.r].ua, p2u, proxy, u)]]
        /\ proxy2ua' = setup_ua_cache(p2u, proxy, u)
        /\ th' = [th EXCEPT ![t] = Done(thr, thr.log \o <<"sel">>, "assigned")]

\* get_proxies, lines 204-207, once the file source returned proxy_list.
AfterFile(thr, proxy_list) ==
    [thr EXCEPT !.proxy_list = proxy_list,
                !.pc = IF thr.read_from_broker /\ proxy_list = {}
                       THEN "ext_wait" ELSE "merge"]

\* get_proxies lines 199-201 and get_proxies_from_file lines 214-232:
\* isfile is os.path.isfile(proxy_path).
get_proxies(thr, isfile) ==
    IF ~thr.read_from_file THEN AfterFile(thr, {})
    ELSE IF isfile THEN [thr EXCEPT !.pc = "check_wait", !.log = @ \o <<"file">>]
    ELSE AfterFile([thr EXCEPT !.log = @ \o <<"file">>,
                        !.file_got = IF thr.stage = 1 THEN SettingsList ELSE @],
                   SettingsList)

\* update_proxies(read_from_file, read_from_broker) up to its first lock.
update_proxies(t, thr, stage, flags) ==
    \E isfile \in BOOLEAN :
        th' = [th EXCEPT ![t] =
            get_proxies([thr EXCEPT !.stage = stage,
                            !.read_from_file = flags.read_from_file,
                            !.read_from_broker = flags.read_from_broker,
                            !.log = @ \o <<"upd">>], isfile)]

\* process_request, lines 91-108 up to the first update_proxies call.
process_request(t, r) ==
    /\ t = "main"
    /\ th[t].pc = "idle"
    /\ UNCHANGED <<pool, is_initial_collection, gather_lock, check_lock,
                   settings, now, timerVars>>
    /\ LET thr == [Idle EXCEPT !.op = "process_request", !.r = r] IN
       IF IsPassThrough(req[r])
       THEN /\ th' = [th EXCEPT ![t] = Done(thr, <<>>, "passthrough")]
            /\ UNCHANGED <<req, proxy2ua>>
       ELSE \E proxy \in get_random(pool) :
            IF proxy # NoProxy
            THEN Assign(t, thr, proxy, proxy2ua)
            ELSE /\ UNCHANGED <<req, proxy2ua>>
                 /\ IF StopsWithoutProxies
                    THEN th' = [th EXCEPT ![t] =
                                Done(thr, <<"sel">>, "CloseSpider(no_proxies)")]
                    ELSE update_proxies(t, [thr EXCEPT !.log = <<"sel">>], 1,
                                        FirstRunFlags)

\* check_proxies, line 405: with cls.check_lock
AcquireCheck(t) ==
    /\ th[t].pc = "check_wait"
    /\ CanAcquire(check_lock, t)
    /\ check_lock' = Acquire(check_lock, t)
    /\ th' = [th EXCEPT ![t].pc = "check_in"]
    /\ UNCHANGED <<pool, proxy2ua, is_initial_collection, gather_lock,
                   settings, req, now, timerVars>>

\* check_proxies, lines 406-440, and get_proxies_from_file line 235.  The
\* broker confirms some of the lines; on RuntimeError the input comes back.
check_proxies(t) ==
    /\ th[t].pc = "check_in"
    /\ check_lock' = ReleaseAll(check_lock, t)
    /\ \E ok \in BOOLEAN : \E confirmed \in SUBSET FileLines :
        LET got == IF ok THEN confirmed ELSE FileLines IN
        /\ ~ok => confirmed = {}
        /\ th' = [th EXCEPT ![t] =
                AfterFile([th[t] EXCEPT
                    !.log = @ \o <<IF ok THEN "check" ELSE "check_error">>,
                    !.file_got = IF th[t].stage = 1 THEN got ELSE @], got)]
    /\ UNCHANGED <<pool, proxy2ua, is_initial_collection, gather_lock,
                   settings, req, now, timerVars>>

\* PROXY_INITIAL_COUNT and PROXY_PERIODIC_COUNT of scrapers/settings.py.
PROXY_INITIAL_COUNT == 200
PROXY_PERIODIC_COUNT == 30

\* The limit of lines 268-270 with the test of the flag left out.
collection_limit_periodic(is_initial) == PROXY_PERIODIC_COUNT

\* get_proxies_from_external lines 268-270 and get_proxies_programmatically
\* lines 342-344: the number of proxies the discovery is asked for.
collection_limit(is_initial) ==
    IF is_initial THEN PROXY_INITIAL_COUNT ELSE PROXY_PERIODIC_COUNT

\* A gather_lock that excludes nobody.
MayEnter_always(t) == TRUE

\* RLock.acquire() on gather_lock by a thread that may proceed.
MayEnter(t) == CanAcquire(gather_lock, t)

\* get_proxies_from_external line 260 and get_proxies_programmatically line
\* 335: with cls.gather_lock.  A thread that finds the lock held blocks
\* (waited); stale records that it got the lock after waiting, at a moment
\* when the pool had a selectable proxy again.
AcquireGather(t) ==
    /\ th[t].pc \in {"ext_wait", "prog_wait"}
    /\ IF MayEnter(t)
       THEN /\ gather_lock' = Acquire(gather_lock, t)
            /\ th' = [th EXCEPT
                    ![t].pc = IF th[t].pc = "ext_wait" THEN "ext_in" ELSE "prog_in",
                    ![t].depth = IF th[t].pc = "ext_wait" THEN @ + 1 ELSE @,
                    ![t].limit = collection_limit(is_initial_collection),
                    ![t].stale = IF th[t].depth = 0
                                 THEN th[t].waited /\ Available(pool) # {}
                                 ELSE @]
       ELSE /\ ~th[t].waited
            /\ th' = [th EXCEPT ![t].waited = TRUE]
            /\ UNCHANGED gather_lock
    /\ UNCHANGED <<pool, proxy2ua, is_initial_collection, check_lock,
                   settings, req, now, timerVars>>

\* get_proxies_from_external lines 265-311 inside the lock (one run of the
\* script, the read of its file, the recursion when the file held nothing),
\* get_proxies lines 206-207, and get_proxies_programmatically lines 336-381.
\* RecursionError leaves update_proxies: process_request passes it on, and a
\* timer thread dies of it in _run.
Collect(t) ==
    /\ th[t].pc \in {"ext_in", "prog_in"}
    /\ UNCHANGED <<pool, proxy2ua, check_lock, settings, req, now, timerVars>>
    /\ IF th[t].pc = "ext_in"
       THEN \E got \in ExtChoices :
            IF got = {}
            THEN /\ UNCHANGED is_initial_collection
                 /\ IF th[t].depth >= MaxDepth
                    THEN /\ gather_lock' = ReleaseAll(gather_lock, t)
                         /\ th' = [th EXCEPT ![t] =
                                Done(th[t], th[t].log \o <<"ext">>, "RecursionError")]
                    ELSE /\ UNCHANGED gather_lock
                         /\ th' = [th EXCEPT ![t].pc = "ext_wait",
                                    ![t].limit = 0,
                                    ![t].log = @ \o <<"ext">>]
            ELSE /\ is_initial_collection' = FALSE
                 /\ gather_lock' = ReleaseAll(gather_lock, t)
                 /\ th' = [th EXCEPT ![t].proxy_list = got,
                            ![t].depth = 0,
                            ![t].limit = 0,
                            ![t].log = @ \o <<"ext">>,
                            ![t].pc = IF got = {} THEN "prog_wait" ELSE "merge"]
       ELSE \E got \in ProgChoices : \E ok \in BOOLEAN :
            /\ is_initial_collection' = (is_initial_collection /\ ~ok)
            /\ gather_lock' = ReleaseAll(gather_lock, t)
            /\ th' = [th EXCEPT ![t].proxy_list = got,
                        ![t].limit = 0,
                        ![t].log = @ \o <<"prog">>, ![t].pc = "merge"]

\* update_proxies lines 192-193: the merge into the pool.
merge(t) ==
    /\ th[t].pc = "merge"
    /\ \E order \in SeqsOf(th[t].proxy_list) : pool' = AddAll(pool, order)
    /\ th' = [th EXCEPT ![t] =
                IF th[t].stage = 0 THEN Done(th[t], th[t].log, "returned")
                ELSE [th[t] EXCEPT !.pc = "retry", !.proxy_list = {}]]
    /\ UNCHANGED <<proxy2ua, is_initial_collection, gather_lock, check_lock,
                   settings, req, now, timerVars>>

\* Line 111 left out: the cache as it was.
proxy2ua_reset_never(p2u) == p2u

\* process_request line 111: self.proxy2ua = {}
proxy2ua_reset(p2u) == <<>>

\* process_request lines 102-111: the selection after an update_proxies call.
retry(t) ==
    /\ th[t].pc = "retry"
    /\ UNCHANGED <<pool, is_initial_collection, gather_lock, check_lock,
                   settings, now, timerVars>>
    /\ \E proxy \in get_random(pool) :
        IF proxy # NoProxy
        THEN Assign(t, th[t], proxy, proxy2ua_reset(proxy2ua))
        ELSE /\ UNCHANGED <<req, proxy2ua>>
             /\ IF th[t].stage = 1
                THEN update_proxies(t, [th[t] EXCEPT !.log = @ \o <<"sel">>], 2,
                                    SecondRunFlags)
                ELSE th' = [th EXCEPT ![t] =
                        Done(th[t], th[t].log \o <<"sel">>,
                             "CloseSpider(no_proxies_after_reset)")]

\* RepeatedTimer._run lines 57-62 calling update_proxies(read_from_file=False)
\* on a timer thread.  After an exception is_function_running stays set and
\* no later tick calls the function.
timer_tick(t) ==
    /\ t = "timer"
    /\ th[t].pc = "idle"
    /\ th[t].outcome # "RecursionError"
    /\ update_proxies(t, [Idle EXCEPT !.op = "update_proxies"], 0, TimerRunFlags)
    /\ UNCHANGED <<pool, proxy2ua, is_initial_collection, gather_lock,
                   check_lock, settings, req, now, timerVars>>

\* RotatingProxyMiddleware._handle_result (library), called by
\* process_response and process_exception on the reactor thread: ban is
\* request.meta['_ban'].
handle_result(r, ban) ==
    /\ th["main"].pc = "idle"
    /\ th' = [th EXCEPT !["main"] = [Idle EXCEPT !.op = "handle_result"]]
    /\ LET proxy == get_proxy(pool, req[r].proxy) IN
        IF proxy = NoProxy \/ ~req[r].rotating THEN UNCHANGED pool
        ELSE IF ban
        THEN /\ pool.proxies[proxy].failed_attempts < MaxFail
             /\ \E jitter \in {0, exp_backoff(pool.proxies[proxy].failed_attempts)} :
                    pool' = mark_dead(pool, proxy, now, jitter)
        ELSE pool' = mark_good(pool, proxy)
    /\ UNCHANGED <<proxy2ua, is_initial_collection, gather_lock, check_lock,
                   settings, req, now, timerVars>>

Next ==
    \/ \E r \in Requests : process_request("main", r)
    \/ \E t \in Threads : AcquireCheck(t)
    \/ \E t \in Threads : check_proxies(t)
    \/ \E t \in Threads : AcquireGather(t)
    \/ \E t \in Threads : Collect(t)
    \/ \E t \in Threads : merge(t)
    \/ \E t \in Threads : retry(t)
    \/ timer_tick("timer")
    \/ \E r \in Requests : \E ban \in BOOLEAN : handle_result(r, ban)

Spec == Init /\ [][Next]_vars

\* The threads are scheduled: a thread inside a `with` block goes on to its
\* end (WF), and a thread blocked in RLock.acquire() gets the lock when the
\* lock is free again and again (SF).
Fairness ==
    \A t \in Threads :
        /\ WF_vars(Collect(t))
        /\ WF_vars(check_proxies(t))
        /\ SF_vars(AcquireGather(t))
        /\ SF_vars(AcquireCheck(t))

\* The middleware seeded with one proxy, with ROTATING_PROXY_CLOSE_SPIDER
\* off so that an exhausted pool sends process_request to the sources.
InitLocks ==
    /\ pool = NewPool(<<A>>)
    /\ is_initial_collection = TRUE
    /\ proxy2ua = <<>>
    /\ gather_lock = FreeLock
    /\ check_lock = FreeLock
    /\ settings = [stop_if_no_proxies |-> FALSE, use_random_ua |-> FALSE,
                   per_proxy |-> FALSE]
    /\ req = [r \in Requests |-> IF r = "r2" THEN ManualRequest ELSE FreshRequest]
    /\ th = [t \in Threads |-> Idle]
    /\ now = 0
    /\ TimerInit

\* The response or the exception of a request whose proxy has not been
\* marked dead since the request got it: one result for each download.
first_result(r, ban) ==
    /\ req[r].proxy \notin pool.dead
    /\ handle_result(r, ban)

\* One request that goes through the pool, its results, the acquisition
\* chain of both threads and the ticks of the timer.
NextLocks ==
    \/ process_request("main", "r1")
    \/ \E t \in Threads : AcquireCheck(t)
    \/ \E t \in Threads : check_proxies(t)
    \/ \E t \in Threads : AcquireGather(t)
    \/ \E t \in Threads : Collect(t)
    \/ \E t \in Threads : merge(t)
    \/ \E t \in Threads : retry(t)
    \/ timer_tick("timer")
    \/ \E ban \in BOOLEAN : first_result("r1", ban)

SpecFair == InitLocks /\ [][NextLocks]_vars /\ Fairness

\* The middleware with RANDOM_UA_PER_PROXY set and no periodic collection
\* (PROXY_COLLECTION_INTERVAL = 0): requests, responses and the acquisition
\* chain on the reactor thread.
NextUA ==
    \/ \E r \in Requests : process_request("main", r)
    \/ AcquireCheck("main")
    \/ check_proxies("main")
    \/ AcquireGather("main")
    \/ Collect("main")
    \/ merge("main")
    \/ retry("main")
    \/ \E r \in Requests : \E ban \in BOOLEAN : handle_result(r, ban)

InitUA ==
    /\ \E seed \in Seeds : \E order \in SeqsOf(seed) : pool = NewPool(order)
    /\ is_initial_collection = TRUE
    /\ proxy2ua = <<>>
    /\ gather_lock = FreeLock
    /\ check_lock = FreeLock
    /\ settings = [stop_if_no_proxies |-> FALSE, use_random_ua |-> TRUE,
                   per_proxy |-> TRUE]
    /\ req = [r \in Requests |-> FreshRequest]
    /\ th = [t \in Threads |-> Idle]
    /\ now = 0
    /\ TimerInit

SpecUA == InitUA /\ [][NextUA]_vars

(***************************************************************************)
(* add line by line: a merge on the timer thread against the selection on  *)
(* the reactor thread.                                                     *)
(***************************************************************************)
\* add with self.unchecked.add(proxy) moved in front of the other writes.
add_line_unchecked_first(P, proxy, line) ==
    CASE line = 449 -> [P EXCEPT !.unchecked = P.unchecked \cup {proxy}]
      [] line = 450 ->
            [P EXCEPT !.proxies = [q \in DOMAIN P.proxies \cup {proxy} |->
                        IF q = proxy THEN ProxyState ELSE P.proxies[q]]]
      [] OTHER ->
            [P EXCEPT !.proxies_by_hostport =
                [hp \in DOMAIN P.proxies_by_hostport
                        \cup {extract_proxy_hostport(proxy)} |->
                    IF hp = extract_proxy_hostport(proxy) THEN proxy
                    ELSE P.proxies_by_hostport[hp]]]

\* CustomProxies.add, one statement at a time: line 449 self.proxies[proxy]
\* = ProxyState(), line 450 self.proxies_by_hostport[hostport] = proxy, line
\* 451 self.unchecked.add(proxy).
add_line(P, proxy, line) ==
    CASE line = 449 ->
            [P EXCEPT !.proxies = [q \in DOMAIN P.proxies \cup {proxy} |->
                        IF q = proxy THEN ProxyState ELSE P.proxies[q]]]
      [] line = 450 ->
            [P EXCEPT !.proxies_by_hostport =
                [hp \in DOMAIN P.proxies_by_hostport
                        \cup {extract_proxy_hostport(proxy)} |->
                    IF hp = extract_proxy_hostport(proxy) THEN proxy
                    ELSE P.proxies_by_hostport[hp]]]
      [] OTHER -> [P EXCEPT !.unchecked = P.unchecked \cup {proxy}]

\* What a timer tick's get_proxies can hand to the loop of update_proxies.
MergeLists == {{B}, {Abare}, {B, Abare}}

\* update_proxies line 185 on the timer thread: new_proxies is there.
merge_begin(t) ==
    /\ t = "timer"
    /\ th[t].pc = "idle"
    /\ \E new_proxies \in MergeLists :
        th' = [th EXCEPT ![t] = [Idle EXCEPT !.op = "update_proxies",
                                    !.pc = "add_loop",
                                    !.proxy_list = new_proxies]]
    /\ UNCHANGED <<pool, proxy2ua, is_initial_collection, gather_lock,
                   check_lock, settings, req, now, timerVars>>

\* update_proxies line 192 and add lines 444-446: the next proxy of the
\* loop, skipped when it is a key already.
add_next(t) ==
    /\ th[t].pc = "add_loop"
    /\ IF th[t].proxy_list = {}
       THEN th' = [th EXCEPT ![t] = Done(th[t], th[t].log, "returned")]
       ELSE \E proxy \in th[t].proxy_list :
            th' = [th EXCEPT ![t].proxy_list = @ \ {proxy},
                             ![t].proxy = IF proxy \in DOMAIN pool.proxies
                                          THEN NoProxy ELSE proxy,
                             ![t].pc = IF proxy \in DOMAIN pool.proxies
                                       THEN "add_loop" ELSE "add449"]
    /\ UNCHANGED <<pool, proxy2ua, is_initial_collection, gather_lock,
                   check_lock, settings, req, now, timerVars>>

\* add lines 449, 450 and 451, one per step.
add_statement(t) ==
    /\ th[t].pc \in {"add449", "add450", "add451"}
    /\ LET line == CASE th[t].pc = "add449" -> 449
                     [] th[t].pc = "add450" -> 450
                     [] OTHER -> 451 IN
        /\ pool' = add_line(pool, th[t].proxy, line)
        /\ th' = [th EXCEPT
                ![t].pc = CASE line = 449 -> "add450"
                            [] line = 450 -> "add451"
                            [] OTHER -> "add_loop",
                ![t].proxy = IF line = 451 THEN NoProxy ELSE @]
    /\ UNCHANGED <<proxy2ua, is_initial_collection, gather_lock, check_lock,
                   settings, req, now, timerVars>>

NextMerge ==
    \/ merge_begin("timer")
    \/ add_next("timer")
    \/ add_statement("timer")
    \/ \E r \in Requests : process_request("main", r)
    \/ \E r \in Requests : \E ban \in BOOLEAN : handle_result(r, ban)

\* ROTATING_PROXY_CLOSE_SPIDER set and USE_RANDOM_UA unset, so that
\* process_request is the selection and the assignment and nothing more.
InitMerge ==
    /\ \E seed \in Seeds : \E order \in SeqsOf(seed) : pool = NewPool(order)
    /\ is_initial_collection = TRUE
    /\ proxy2ua = <<>>
    /\ gather_lock = FreeLock
    /\ check_lock = FreeLock
    /\ settings = [stop_if_no_proxies |-> TRUE, use_random_ua |-> FALSE,
                   per_proxy |-> FALSE]
    /\ req = [r \in Requests |-> FreshRequest]
    /\ th = [t \in Threads |-> Idle]
    /\ now = 0
    /\ TimerInit

SpecMerge == InitMerge /\ [][NextMerge]_vars

(***************************************************************************)
(* RepeatedTimer (modules/async_looper.py).                                *)
(***************************************************************************)
\* RepeatedTimer.running
running == rt.timer # 0

\* RepeatedTimer.start, lines 71-74, on the timer R and its Timer objects T:
\* a new threading.Timer is armed unless one is pending.
start(R, T) ==
    IF R.timer = 0
    THEN [rt |-> [R EXCEPT !.next_call = @ + 1, !.timer = R.created + 1,
                           !.created = @ + 1],
          tm |-> [T EXCEPT ![R.created + 1] = "armed"]]
    ELSE [rt |-> R, tm |-> T]

\* No more than MaxTimers Timer objects are created.
CanStart == rt.timer # 0 \/ rt.created < MaxTimers

\* RepeatedTimer.stop, lines 77-78, called by op: self._timer.cancel()
\* raises AttributeError when self._timer is None.  Timer.cancel() stops a
\* timer that has not fired and does nothing to one that has.
stop(op) ==
    IF rt.timer = 0
    THEN /\ caller' = [op |-> op, raised |-> TRUE, pc |-> "idle"]
         /\ UNCHANGED <<rt, tm>>
    ELSE /\ tm' = [tm EXCEPT ![rt.timer] = IF @ = "armed" THEN "cancelled" ELSE @]
         /\ rt' = [rt EXCEPT !.timer = 0]
         /\ caller' = [op |-> op, raised |-> FALSE, pc |-> "idle"]

\* The interval elapsed: the Timer thread i calls _run.
Fire(i) ==
    /\ tm[i] = "armed"
    /\ tm' = [tm EXCEPT ![i] = "L55"]
    /\ UNCHANGED <<rt, caller, poolVars>>

\* _run line 55: self._timer = None
Run55(i) ==
    /\ tm[i] = "L55"
    /\ rt' = [rt EXCEPT !.timer = 0]
    /\ tm' = [tm EXCEPT ![i] = "L56"]
    /\ UNCHANGED <<caller, poolVars>>

\* _run line 56: self.start()
Run56(i) ==
    /\ tm[i] = "L56"
    /\ CanStart
    /\ rt' = start(rt, tm).rt
    /\ tm' = [start(rt, tm).tm EXCEPT ![i] = "L57"]
    /\ UNCHANGED <<caller, poolVars>>

\* _run line 57: if not self.is_function_running, else the log of line 64
Run57(i) ==
    /\ tm[i] = "L57"
    /\ tm' = [tm EXCEPT ![i] = IF rt.is_function_running THEN "done" ELSE "L58"]
    /\ UNCHANGED <<rt, caller, poolVars>>

\* _run line 58: self.is_function_running = True
Run58(i) ==
    /\ tm[i] = "L58"
    /\ rt' = [rt EXCEPT !.is_function_running = TRUE]
    /\ tm' = [tm EXCEPT ![i] = "L61"]
    /\ UNCHANGED <<caller, poolVars>>

\* _run line 61: self.function(...) returns, or raises and ends the thread.
Run61(i) ==
    /\ tm[i] = "L61"
    /\ \E raises \in BOOLEAN :
        tm' = [tm EXCEPT ![i] = IF raises THEN "died" ELSE "L62"]
    /\ UNCHANGED <<rt, caller, poolVars>>

\* _run line 62: self.is_function_running = False
Run62(i) ==
    /\ tm[i] = "L62"
    /\ rt' = [rt EXCEPT !.is_function_running = FALSE]
    /\ tm' = [tm EXCEPT ![i] = "done"]
    /\ UNCHANGED <<caller, poolVars>>

\* start() called from outside _run (CustomProxies.__init__ line 173).
CallStart ==
    /\ caller.pc = "idle"
    /\ CanStart
    /\ rt' = start(rt, tm).rt
    /\ tm' = start(rt, tm).tm
    /\ caller' = [op |-> "start", raised |-> FALSE, pc |-> "idle"]
    /\ UNCHANGED poolVars

\* stop() called from outside.
CallStop ==
    /\ caller.pc = "idle"
    /\ stop("stop")
    /\ UNCHANGED poolVars

\* CustomProxies.engine_stopped line 178: if ... self.task.running
EngineStopped ==
    /\ caller.pc = "idle"
    /\ caller' = [op |-> "engine_stopped", raised |-> FALSE,
                  pc |-> IF running THEN "L180" ELSE "idle"]
    /\ UNCHANGED <<rt, tm, poolVars>>

\* CustomProxies.engine_stopped line 180: self.task.stop()
EngineStopped180 ==
    /\ caller.pc = "L180"
    /\ stop("engine_stopped")
    /\ UNCHANGED poolVars

\* The handler from_crawler line 87 connects to signals.engine_stopped is
\* mw.engine_stopped, the middleware's method inherited from the library
\* RotatingProxyMiddleware (it stops the middleware's own log and reanimation
\* loops).  CustomProxies.engine_stopped is connected to no signal, so the
\* delivery of the signal leaves self.proxies.task alone.
engine_stopped_signal ==
    /\ caller.pc = "idle"
    /\ caller' = [op |-> "engine_stopped_signal", raised |-> FALSE, pc |-> "idle"]
    /\ UNCHANGED <<rt, tm, poolVars>>

NextTimer ==
    \/ \E i \in 1..MaxTimers : Fire(i)
    \/ \E i \in 1..MaxTimers : Run55(i)
    \/ \E i \in 1..MaxTimers : Run56(i)
    \/ \E i \in 1..MaxTimers : Run57(i)
    \/ \E i \in 1..MaxTimers : Run58(i)
    \/ \E i \in 1..MaxTimers : Run61(i)
    \/ \E i \in 1..MaxTimers : Run62(i)
    \/ CallStart
    \/ CallStop
    \/ EngineStopped
    \/ EngineStopped180
    \/ engine_stopped_signal

\* The middleware at rest while the timer runs.
InitTimer ==
    /\ pool = NewPool(<<A>>)
    /\ is_initial_collection = TRUE
    /\ proxy2ua = <<>>
    /\ gather_lock = FreeLock
    /\ check_lock = FreeLock
    /\ settings = [stop_if_no_proxies |-> FALSE, use_random_ua |-> TRUE,
                   per_proxy |-> FALSE]
    /\ req = [r \in Requests |-> IF r = "r2" THEN ManualRequest ELSE FreshRequest]
    /\ th = [t \in Threads |-> Idle]
    /\ now = 0
    /\ TimerInit

SpecTimer == InitTimer /\ [][NextTimer]_vars

(***************************************************************************)
(* RepeatedTimer.start statement by statement: the test of line 71 and the *)
(* arming of lines 72-74 are separate steps of the calling thread, and no  *)
(* lock is held between them.                                              *)
(***************************************************************************)
\* start line 71: if self._timer is None
start71 == rt.timer = 0

\* start line 72: self.next_call += self.interval
start72(R) == [R EXCEPT !.next_call = @ + 1]

\* start lines 73-74: self._timer = threading.Timer(...); self._timer.start()
start73(R, T) ==
    [rt |-> [R EXCEPT !.timer = R.created + 1, !.created = @ + 1],
     tm |-> [T EXCEPT ![R.created + 1] = "armed"]]

\* _run line 56, the test of start(): the Timer thread i goes on to line 72
\* or comes back to line 57.
RunStart71(i) ==
    /\ tm[i] = "L56"
    /\ tm' = [tm EXCEPT ![i] = IF start71 THEN "S72" ELSE "L57"]
    /\ UNCHANGED <<rt, caller, poolVars>>

\* _run line 56, line 72 of start()
RunStart72(i) ==
    /\ tm[i] = "S72"
    /\ rt' = start72(rt)
    /\ tm' = [tm EXCEPT ![i] = "S73"]
    /\ UNCHANGED <<caller, poolVars>>

\* _run line 56, lines 73-74 of start(), then back to line 57
RunStart73(i) ==
    /\ tm[i] = "S73"
    /\ rt.created < MaxTimers
    /\ rt' = start73(rt, tm).rt
    /\ tm' = [start73(rt, tm).tm EXCEPT ![i] = "L57"]
    /\ UNCHANGED <<caller, poolVars>>

\* start() called from outside _run (CustomProxies.__init__ line 173): the
\* test of line 71.
CallStart71 ==
    /\ caller.pc = "idle"
    /\ caller' = [op |-> "start", raised |-> FALSE,
                  pc |-> IF start71 THEN "S72" ELSE "idle"]
    /\ UNCHANGED <<rt, tm, poolVars>>

\* the outside call at line 72
CallStart72 ==
    /\ caller.pc = "S72"
    /\ rt' = start72(rt)
    /\ caller' = [caller EXCEPT !.pc = "S73"]
    /\ UNCHANGED <<tm, poolVars>>

\* the outside call at lines 73-74
CallStart73 ==
    /\ caller.pc = "S73"
    /\ rt.created < MaxTimers
    /\ rt' = start73(rt, tm).rt
    /\ tm' = start73(rt, tm).tm
    /\ caller' = [caller EXCEPT !.pc = "idle"]
    /\ UNCHANGED poolVars

NextStart ==
    \/ \E i \in 1..MaxTimers : Fire(i)
    \/ \E i \in 1..MaxTimers : Run55(i)
    \/ \E i \in 1..MaxTimers : RunStart71(i)
    \/ \E i \in 1..MaxTimers : RunStart72(i)
    \/ \E i \in 1..MaxTimers : RunStart73(i)
    \/ \E i \in 1..MaxTimers : Run57(i)
    \/ \E i \in 1..MaxTimers : Run58(i)
    \/ \E i \in 1..MaxTimers : Run61(i)
    \/ \E i \in 1..MaxTimers : Run62(i)
    \/ CallStart71
    \/ CallStart72
    \/ CallStart73

SpecStart == InitTimer /\ [][NextStart]_vars

(***************************************************************************)
(* Failures, successes and the passing of time on the pool alone.          *)
(***************************************************************************)
\* What random.uniform(0, x) of exp_backoff_full_jitter (library) can draw:
\* the ends of the interval and its middle.
JitterDraws(x) == {0, x \div 2, x}

\* Proxies.reanimate of the library: dead proxies whose next_check has
\* passed go back to unchecked.
reanimate_proxies_library(P, time) ==
    LET back == {q \in P.dead : P.proxies[q].next_check <= time} IN
    [P EXCEPT !.dead = P.dead \ back, !.unchecked = P.unchecked \cup back]

\* CustomRotatingProxiesMiddleware.reanimate_proxies, lines 120-123: the
\* override has no body, so the pool stays as it is.
reanimate_proxies(P, time) == P

\* _handle_result with _ban set (library): mark_dead with the delay the
\* backoff drew for the failures so far.
record_failure(proxy) ==
    /\ proxy \in DOMAIN pool.proxies
    /\ pool.proxies[proxy].failed_attempts < MaxAttempts
    /\ \E jitter \in JitterDraws(exp_backoff(pool.proxies[proxy].failed_attempts)) :
            pool' = mark_dead(pool, proxy, now, jitter)
    /\ UNCHANGED <<proxy2ua, is_initial_collection, gather_lock, check_lock,
                   settings, req, th, now, timerVars>>

\* _handle_result with _ban unset (library): mark_good.
record_success(proxy) ==
    /\ proxy \in DOMAIN pool.proxies
    /\ pool' = mark_good(pool, proxy)
    /\ UNCHANGED <<proxy2ua, is_initial_collection, gather_lock, check_lock,
                   settings, req, th, now, timerVars>>

\* Time passes, in steps of the backoff base, and the reanimation loop the
\* middleware starts in engine_started calls reanimate_proxies.
reanimate_tick ==
    /\ now < MaxTicks * BackoffBase
    /\ now' = now + BackoffBase
    /\ pool' = reanimate_proxies(pool, now')
    /\ UNCHANGED <<proxy2ua, is_initial_collection, gather_lock, check_lock,
                   settings, req, th, timerVars>>

NextBackoff ==
    \/ \E proxy \in {A, B} : record_failure(proxy)
    \/ \E proxy \in {A, B} : record_success(proxy)
    \/ reanimate_tick

\* The middleware with its seed pool, nothing else going on.
InitBackoff ==
    /\ \E seed \in Seeds : \E order \in SeqsOf(seed) : pool = NewPool(order)
    /\ is_initial_collection = TRUE
    /\ proxy2ua = <<>>
    /\ gather_lock = FreeLock
    /\ check_lock = FreeLock
    /\ settings = [stop_if_no_proxies |-> FALSE, use_random_ua |-> TRUE,
                   per_proxy |-> FALSE]
    /\ req = [r \in Requests |-> FreshRequest]
    /\ th = [t \in Threads |-> Idle]
    /\ now = 0
    /\ TimerInit

SpecBackoff == InitBackoff /\ [][NextBackoff]_vars

(***************************************************************************)
(* Properties.                                                             *)
(***************************************************************************)
Main == th["main"]

\* The step is one process_request(r) call starting on the reactor thread.
IsProcessRequestStep(r) ==
    /\ th["main"].pc = "idle"
    /\ th'["main"] # th["main"]
    /\ th'["main"].op = "process_request"
    /\ th'["main"].r = r

\* The backoff window of a proxy is open while the proxy is in dead and its
\* next_check lies ahead; mark_good ends it by taking the proxy out of dead.
InBackoff(P, proxy) ==
    proxy \in P.dead /\ now < P.proxies[proxy].next_check

\* How many events of kinds the log holds.
Count(log, kinds) == Cardinality({i \in 1..Len(log) : log[i] \in kinds})

C2_AddExistingNoOp ==
    [][\A t \in Threads :
        (th[t].pc = "merge" /\ th'[t] # th[t]) =>
            /\ \A p \in DOMAIN pool.proxies :
                /\ p \in DOMAIN pool'.proxies
                /\ pool'.proxies[p] = pool.proxies[p]
                /\ (p \in pool'.unchecked) = (p \in pool.unchecked)
                /\ (p \in pool'.good) = (p \in pool.good)
                /\ (p \in pool'.dead) = (p \in pool.dead)
            /\ th[t].proxy_list \subseteq DOMAIN pool.proxies => pool' = pool
            /\ DOMAIN pool'.proxies = DOMAIN pool.proxies \cup th[t].proxy_list
      ]_vars

\* The file source returned a proxy that is a dead key, the merge is done
\* and the proxy is still dead.
C2_Witness ==
    /\ Main.pc = "retry"
    /\ Main.stage = 1
    /\ Main.file_got \cap pool.dead # {}

\* The order of events process_request goes through once its selection came
\* back empty: sel, update (file source, its check), sel, and if that is
\* still empty update (the external script, again while it leaves nothing;
\* the broker only after an empty list from it), sel.  -1 is no such order.
LogStep(state, event) ==
    CASE state = 0 /\ event = "sel" -> 1
      [] state = 1 /\ event = "upd" -> 2
      [] state = 2 /\ event = "file" -> 3
      [] state = 3 /\ event \in {"check", "check_error"} -> 4
      [] state \in {3, 4} /\ event = "sel" -> 5
      [] state = 5 /\ event = "upd" -> 6
      [] state \in {6, 7} /\ event = "ext" -> 7
      [] state = 7 /\ event = "prog" -> 8
      [] state \in {7, 8} /\ event = "sel" -> 9
      [] OTHER -> -1

RECURSIVE LogRun(_, _)
LogRun(state, log) ==
    IF log = <<>> THEN state ELSE LogRun(LogStep(state, Head(log)), Tail(log))

\* The order the claim states: the second update reads the file source
\* first and goes on to the external script and the broker from there.
ClaimedLogStep(state, event) ==
    CASE state = 0 /\ event = "sel" -> 1
      [] state = 1 /\ event = "upd" -> 2
      [] state = 2 /\ event = "file" -> 3
      [] state = 3 /\ event \in {"check", "check_error"} -> 4
      [] state \in {3, 4} /\ event = "sel" -> 5
      [] state = 5 /\ event = "upd" -> 6
      [] state = 6 /\ event = "file" -> 7
      [] state = 7 /\ event \in {"check", "check_error"} -> 8
      [] state \in {7, 8, 9} /\ event = "ext" -> 9
      [] state = 9 /\ event = "prog" -> 10
      [] state \in {7, 8, 9, 10} /\ event = "sel" -> 11
      [] OTHER -> -1

RECURSIVE ClaimedLogRun(_, _)
ClaimedLogRun(state, log) ==
    IF log = <<>> THEN state
    ELSE ClaimedLogRun(ClaimedLogStep(state, Head(log)), Tail(log))

C4_ExhaustionRaisesCloseSpider ==
    (Main.op = "process_request" /\ Main.pc = "idle" /\ Main.log # <<>>
        /\ Main.outcome # "assigned" /\ Main.file_got = {}) =>
            Main.outcome \in {"CloseSpider(no_proxies)",
                              "CloseSpider(no_proxies_after_reset)"}

\* The premise of C5: process_request is past the selection that followed
\* its first update, the file source had yielded [A, B], and the pool has no
\* selectable proxy from anywhere else.
C5_Given ==
    /\ Main.op = "process_request"
    /\ Main.file_got = {A, B}
    /\ Main.stage = 2 \/ (Main.stage = 1 /\ Main.pc = "idle")
    /\ Available(pool) \subseteq {A, B}

\* The conclusion of C5: one update ran and A or B was assigned.
C5_Then ==
    /\ Main.stage = 1
    /\ Main.outcome = "assigned"
    /\ req[Main.r].proxy \in {A, B}
    /\ Count(Main.log, {"upd"}) = 1

\* C5 as amended: when stop_if_no_proxies is off, the pool has no selectable
\* proxy, the file source yields [A, B] and A and B are not both dead keys
\* of the pool already, process_request runs exactly one update (the file
\* source only) and assigns A or B.
C5_FileRefill == (C5_Given /\ ~({A, B} \subseteq pool.dead)) => C5_Then

\* The file source yielded [A, B] while the pool held a dead proxy, and the
\* request got A or B after one update.
C5_Witness == C5_Given /\ C5_Then /\ pool.dead # {}

\* C5 as stated: also when the entries of the pool are all dead.
C5_AsStated == C5_Given => C5_Then

\* C6: with stop_if_no_proxies set, a process_request for a request it
\* manages that finds no selectable proxy raises CloseSpider in that same
\* step (no update, no lock, no wait) and changes neither the pool nor the
\* request nor the user-agent cache.
C6_StopIfNoProxies ==
    [][\A r \in Requests :
        (IsProcessRequestStep(r) /\ settings.stop_if_no_proxies
            /\ ~(req[r].proxy # NoProxy /\ ~req[r].rotating)
            /\ Available(pool) = {}) =>
                /\ th'["main"].outcome = "CloseSpider(no_proxies)"
                /\ th'["main"].pc = "idle"
                /\ th'["main"].log = <<"sel">>
                /\ UNCHANGED <<pool, req, proxy2ua, gather_lock, check_lock,
                               is_initial_collection>>
      ]_vars

\* process_request raised CloseSpider("no_proxies").
C6_Witness ==
    /\ settings.stop_if_no_proxies
    /\ Main.outcome = "CloseSpider(no_proxies)"
    /\ Available(pool) = {}

\* C7: a thread that had to wait for gather_lock and got it when the pool
\* had a selectable proxy again runs no collection of its own.
C7_WaiterDoesNotCollect ==
    \A t \in Threads : th[t].stale => Count(th[t].log, {"ext", "prog"}) = 0

\* Between with cls.gather_lock and its end, the recursion included.
InCollection(t) ==
    \/ th[t].pc \in {"ext_in", "prog_in"}
    \/ th[t].pc = "ext_wait" /\ th[t].depth > 0
\* Between with cls.check_lock and its end.
InVerification(t) == th[t].pc = "check_in"

\* C8: at most one thread is inside a collection and at most one inside a
\* verification; the thread inside owns the lock, and a thread that found
\* the lock held is still in front of it.
C8_MutualExclusion ==
    /\ \A t, u \in Threads : InCollection(t) /\ InCollection(u) => t = u
    /\ \A t, u \in Threads : InVerification(t) /\ InVerification(u) => t = u
    /\ \A t \in Threads : InCollection(t) => gather_lock.owner = t
    /\ \A t \in Threads : InVerification(t) => check_lock.owner = t
    /\ \A t \in Threads : gather_lock.owner = t => InCollection(t)

\* One thread is inside a collection and the other waits at the lock.
C8_Witness ==
    \E t, u \in Threads :
        /\ InCollection(t)
        /\ th[u].pc = "ext_wait" /\ th[u].depth = 0 /\ th[u].waited

\* C9: process_request leaves a request with a proxy it did not assign as
\* it is, with no selection, no update and no change to the pool, the locks
\* or the user-agent cache; every other request gets a selection, and when
\* that finds a proxy the request carries a proxy selectable at that moment.
C9_ExplicitProxyPassThrough ==
    [][\A r \in Requests :
        IsProcessRequestStep(r) =>
            IF req[r].proxy # NoProxy /\ ~req[r].rotating
            THEN /\ th'["main"].outcome = "passthrough"
                 /\ th'["main"].log = <<>>
                 /\ th'["main"].pc = "idle"
                 /\ UNCHANGED <<req, pool, proxy2ua, gather_lock, check_lock,
                                is_initial_collection>>
            ELSE /\ th'["main"].log # <<>>
                 /\ Head(th'["main"].log) = "sel"
                 /\ Available(pool) # {} =>
                        /\ th'["main"].outcome = "assigned"
                        /\ req'[r].proxy \in Available(pool)
                        /\ req'[r].rotating
      ]_vars

\* A request with a hand-set proxy went through while another request
\* carries a proxy the controller assigned.
C9_Witness ==
    /\ Main.outcome = "passthrough"
    /\ req[Main.r].proxy = Manual
    /\ \E r \in Requests : req[r].rotating

\* C10: a stop() call raises no error, whether or not a timer is pending
\* when it is made (a second stop() in a row finds none pending).
C10_StopIdempotent == caller.op = "stop" => ~caller.raised

\* A Timer thread is inside the scheduled function.
InFunction(i) == tm[i] = "L61"
\* A Timer is pending, or its thread is on its way to the function.
Pending(i) == tm[i] \in {"armed", "L55", "L56", "L57", "L58"}

\* C11: once a stop() call has returned, no timer is armed and _timer is
\* None, whatever a timer thread inside _run was doing when stop() ran.
C11_NoRelaunchAfterStop ==
    (caller.op = "stop" /\ ~caller.raised) =>
        /\ rt.timer = 0
        /\ \A i \in 1..MaxTimers : tm[i] # "armed"

\* C12: at most one timer thread is inside the scheduled function.
C12_SingleInvocation ==
    \A i, j \in 1..MaxTimers : (InFunction(i) /\ InFunction(j)) => i = j

\* C18: once the engine_stopped signal has been delivered to the handler
\* from_crawler connected, no timer is pending and none is on its way to
\* the refresh function.
C18_TornDownOnEngineStopped ==
    caller.op = "engine_stopped_signal" =>
        /\ rt.timer = 0
        /\ \A i \in 1..MaxTimers : ~Pending(i)

\* A thread is inside a discovery run, its limit chosen.
InDiscovery(t) == th[t].pc \in {"ext_in", "prog_in"}

\* C13 as amended: a discovery run uses the initial count for as long as no
\* run has completed with proxies, self-retries after an empty result
\* included, and the periodic count from then on; the flag goes from
\* initial to periodic only, and only when a run completes.
C13_InitialThenPeriodic ==
    /\ [](\A t \in Threads : InDiscovery(t) =>
            th[t].limit = IF is_initial_collection THEN PROXY_INITIAL_COUNT
                          ELSE PROXY_PERIODIC_COUNT)
    /\ [][/\ is_initial_collection' => is_initial_collection
          /\ (is_initial_collection /\ ~is_initial_collection') =>
                \E t \in Threads :
                    /\ InDiscovery(t)
                    /\ th[t].limit = PROXY_INITIAL_COUNT
                    /\ th'[t].pc = "merge"
                    /\ th'[t].proxy_list # {}
         ]_vars

\* A discovery run uses the periodic count, an earlier run having completed.
C13_Witness ==
    \E t \in Threads :
        /\ InDiscovery(t)
        /\ th[t].limit = PROXY_PERIODIC_COUNT
        /\ ~is_initial_collection

\* C13 as stated: a discovery run that is not the first one (here the
\* self-retry of an empty run) uses the periodic count.
C13_AsStated ==
    \A t \in Threads :
        (InDiscovery(t) /\ Count(th[t].log, {"ext", "prog"}) > 0) =>
            th[t].limit = PROXY_PERIODIC_COUNT

\* The step records a failure of proxy: its count of failures goes up by one.
IsFailureStep(proxy) ==
    /\ proxy \in DOMAIN pool.proxies
    /\ pool'.proxies[proxy].failed_attempts =
            pool.proxies[proxy].failed_attempts + 1

FiveDelays == <<30, 60, 120, 240, 480>>

C17_StickyUserAgent ==
    (settings.per_proxy /\ Main.outcome = "assigned") =>
        /\ req[Main.r].proxy \in DOMAIN proxy2ua
        /\ req[Main.r].ua = proxy2ua[req[Main.r].proxy]

\* C19: get_proxies_from_external runs the script at most twice (one
\* self-retry) and then hands a list, empty if need be, back to the chain:
\* no call ends in an error of the recursion.
C19_BoundedSelfRetry ==
    \A t \in Threads :
        /\ Count(th[t].log, {"ext"}) <= 2
        /\ th[t].outcome # "RecursionError"

\* The last event of a thread's log.
LastEvent(t) == IF th[t].log = <<>> THEN "none" ELSE th[t].log[Len(th[t].log)]

\* C20: a source that failed hands the chain an empty list (a verification
\* that raised gives no unverified line to the merge), and update_proxies
\* ends without an exception.
C20_FailuresBecomeEmpty ==
    \A t \in Threads :
        /\ (LastEvent(t) = "check_error" /\ th[t].pc = "merge") =>
                th[t].proxy_list = {}
        /\ th[t].op \in {"process_request", "update_proxies"} =>
                th[t].outcome \in {"none", "returned", "assigned", "passthrough",
                                   "CloseSpider(no_proxies)",
                                   "CloseSpider(no_proxies_after_reset)"}

\* C21: in one acquisition run the external script is run only when the
\* broker sources are enabled and the file source gave nothing, the broker
\* only after the script gave nothing, and a script that gave nothing is
\* followed by the broker: the thread is not back in front of the script
\* and its run has not ended in an error.
C21_SourceOrder ==
    \A t \in Threads :
        /\ th[t].pc \in {"ext_wait", "ext_in", "prog_wait", "prog_in"} =>
                (th[t].read_from_broker /\ th[t].proxy_list = {})
        /\ th[t].pc \in {"prog_wait", "prog_in"} => LastEvent(t) = "ext"
        /\ LastEvent(t) = "ext" =>
                /\ th[t].pc \notin {"ext_wait", "ext_in"}
                /\ th[t].outcome # "RecursionError"

\* C22: what check_proxies hands back is what the broker confirmed; after a
\* broker run that raised, nothing was confirmed and nothing is handed back.
C22_OnlyConfirmed ==
    \A t \in Threads :
        (LastEvent(t) = "check_error" /\ th[t].pc \in {"merge", "ext_wait"}) =>
            th[t].proxy_list = {}

\* The step is the selection after an update_proxies call finding a proxy.
IsRefillAssignStep(t) == th[t].pc = "retry" /\ th'[t].outcome = "assigned"

\* C23 as amended: the user-agent cache is cleared as a whole when
\* process_request found a proxy after refilling an exhausted pool (only
\* the entry of the proxy just assigned is in it afterwards); no other step
\* drops or changes an entry, and marking a proxy dead leaves its entry in
\* the cache.
C23_CacheClearedOnRefillOnly ==
    [][/\ \A t \in Threads :
            IsRefillAssignStep(t) => DOMAIN proxy2ua' = {req'[th[t].r].proxy}
       /\ (\A t \in Threads : ~IsRefillAssignStep(t)) =>
            \A proxy \in DOMAIN proxy2ua :
                /\ proxy \in DOMAIN proxy2ua'
                /\ proxy2ua'[proxy] = proxy2ua[proxy]
       /\ pool'.dead # pool.dead => proxy2ua' = proxy2ua
      ]_vars

\* A proxy with an entry in the cache has just been marked dead.
C23_Witness ==
    /\ Main.op = "handle_result"
    /\ \E proxy \in pool.dead : proxy \in DOMAIN proxy2ua

\* C23 as stated: no dead proxy has an entry in the cache.
C23_AsStated == \A proxy \in DOMAIN proxy2ua : proxy \notin pool.dead

\* C24: every key of the hostport index maps to a proxy that is a key of
\* the pool and not dead, and no two proxies that are not dead have the same
\* hostport.
C24_HostPortIndexLive ==
    /\ \A hp \in DOMAIN pool.proxies_by_hostport :
        /\ pool.proxies_by_hostport[hp] \in DOMAIN pool.proxies
        /\ pool.proxies_by_hostport[hp] \notin pool.dead
    /\ \A p, q \in DOMAIN pool.proxies \ pool.dead :
        extract_proxy_hostport(p) = extract_proxy_hostport(q) => p = q

\* C25: every key of the pool has the form scheme://host:port with scheme
\* http or https, and no endpoint is in the pool under two keys.
C25_CanonicalKeys ==
    /\ \A p \in DOMAIN pool.proxies : p.scheme \in {"http", "https"}
    /\ \A p, q \in DOMAIN pool.proxies :
        extract_proxy_hostport(p) = extract_proxy_hostport(q) => p = q

\* C26: while a merge adds proxies statement by statement, every proxy the
\* selection can return has its ProxyState in the main mapping and an entry
\* for its hostport in the index, and so has the proxy a request was given;
\* between two proxies of the loop every key is in unchecked, good or dead.
C26_NoPartialProxySelectable ==
    /\ \A proxy \in Available(pool) :
        /\ proxy \in DOMAIN pool.proxies
        /\ extract_proxy_hostport(proxy) \in DOMAIN pool.proxies_by_hostport
    /\ Main.outcome = "assigned" =>
        /\ req[Main.r].proxy \in DOMAIN pool.proxies
        /\ extract_proxy_hostport(req[Main.r].proxy)
                \in DOMAIN pool.proxies_by_hostport
    /\ th["timer"].pc \in {"idle", "add_loop"} =>
        DOMAIN pool.proxies = pool.unchecked \cup pool.good \cup pool.dead

\* A request was given a proxy while the timer thread is in the middle of
\* add for another proxy, which is not selectable yet.
C26_Witness ==
    /\ th["timer"].pc \in {"add450", "add451"}
    /\ th["timer"].proxy \in DOMAIN pool.proxies
    /\ th["timer"].proxy \notin Available(pool)
    /\ Main.outcome = "assigned"

\* C27: a process_request call that is over, for a request it manages,
\* either raised CloseSpider or left the request with a proxy that is a key
\* of the pool, the rotation mark, and a download slot naming the host of
\* that proxy's hostport.
C27_ManagedRequestHasProxy ==
    (Main.op = "process_request" /\ Main.pc = "idle"
        /\ Main.outcome # "passthrough") =>
            \/ Main.outcome \in {"CloseSpider(no_proxies)",
                                 "CloseSpider(no_proxies_after_reset)"}
            \/ /\ Main.outcome = "assigned"
               /\ req[Main.r].proxy # NoProxy
               /\ req[Main.r].proxy \in DOMAIN pool.proxies
               /\ req[Main.r].rotating
               /\ req[Main.r].download_slot =
                    extract_proxy_hostport(req[Main.r].proxy)[1]

\* C28: is_function_running is set only while a timer thread is inside the
\* scheduled function (or about to clear the flag after it); a function
\* that raised does not leave it set.
C28_FlagClearedAfterException ==
    rt.is_function_running =>
        \E i \in 1..MaxTimers : tm[i] \in {"L61", "L62"}

\* C29: at most one Timer of a RepeatedTimer is pending at any time, and
\* next_call has advanced once per Timer created, however an outside start()
\* and the start() inside _run interleave.
C29_AtMostOnePending ==
    /\ Cardinality({i \in 1..MaxTimers : tm[i] = "armed"}) <= 1
    /\ (caller.pc = "idle"
        /\ \A i \in 1..MaxTimers : tm[i] \notin {"S72", "S73"})
            => rt.next_call = rt.created

\* A thread is inside, or re-entering, a `with cls.gather_lock` block.
InGatherBlock(t) ==
    th[t].pc \in {"ext_in", "prog_in"} \/ (th[t].pc = "ext_wait" /\ th[t].depth > 0)

\* No thread holds one lock while it asks for or holds the other, a thread
\* outside the `with` blocks holds neither lock, and a lock that keeps a
\* thread waiting is owned by a thread that is inside the block.
LocksWellNested ==
    \A t \in Threads :
        /\ th[t].pc \in {"check_wait", "check_in"} => gather_lock.owner # t
        /\ th[t].pc \in {"ext_wait", "ext_in", "prog_wait", "prog_in"} =>
                check_lock.owner # t
        /\ gather_lock.owner = t <=> InGatherBlock(t)
        /\ check_lock.owner = t <=> th[t].pc = "check_in"
        /\ gather_lock.owner = NoThread <=> gather_lock.count = 0
        /\ check_lock.owner = NoThread <=> check_lock.count = 0

\* C30: the two locks never deadlock.  No thread asks for one lock while it
\* holds the other, every way out of get_proxies_from_external,
\* get_proxies_programmatically and check_proxies leaves the thread with
\* neither lock, and a thread that waits for a lock gets it.
C30_NoDeadlock ==
    /\ []LocksWellNested
    /\ \A t \in Threads :
        /\ (th[t].pc \in {"ext_wait", "prog_wait"}) ~> (gather_lock.owner = t)
        /\ (th[t].pc = "check_wait") ~> (check_lock.owner = t)

\* A thread that found gather_lock held by the other thread owns it now.
C30_Witness ==
    \E t \in Threads :
        /\ th[t].waited
        /\ th[t].pc = "ext_in"
        /\ gather_lock.owner = t
        /\ \E u \in Threads \ {t} : "ext" \in {th[u].log[k] : k \in DOMAIN th[u].log}

====
